---------------------------- MODULE Spec2Model ----------------------------
(***************************************************************************)
(* A model of generate_profile.py: main, the three fetch functions         *)
(* (fetch_stats, fetch_events, fetch_ai_ratio) and the parts of the SVG    *)
(* assembly that can decide whether profile.svg is written.                *)
(*                                                                         *)
(* JSON objects are functions from key strings to values, a missing key    *)
(* is a key outside the DOMAIN, JSON arrays are sequences, and a Python    *)
(* str is a sequence of one-character strings.  A float quotient           *)
(* size / total * 100 is kept as the exact fraction [num, den]; a call     *)
(* that can raise returns [exc, val].                                      *)
(***************************************************************************)
EXTENDS Integers, Sequences, FiniteSets, TLC

VARIABLES
    token,       \* TOKEN is non-empty (os.getenv("GITHUB_TOKEN", ""))
    pc,          \* position of main
    statsResp,   \* what the GraphQL request of fetch_stats comes back with
    eventsResp,  \* what the events request of fetch_events comes back with
    aiResp,      \* what the events request of fetch_ai_ratio comes back with
    stats,       \* main's local stats
    events,      \* main's local events
    ai,          \* main's locals total, ai_count, ai_breakdown
    svg,         \* main's local svg
    log,         \* the requests issued and finished and the file writes, in order
    written,     \* how many times profile.svg has been written
    exc          \* the exception that ended main and the call it left, "none" while there is none

vars == <<token, pc, statsResp, eventsResp, aiResp, stats, events, ai, svg,
          log, written, exc>>

---------------------------------------------------------------------------
(* Bounds of the model *)

MaxDays == 4       \* days in a contribution calendar
MaxWeekLen == 2    \* days per week of a contribution calendar
MaxLangs == 9      \* distinct languages in a response
MaxEvents == 3     \* events in a feed
MaxCommits == 3    \* commits in one event
MaxAiCommits == 3  \* commits in a feed read by fetch_ai_ratio
MaxStreak == 71    \* days of the most recent run of a long calendar
MaxWeeks == 27     \* weeks of a long calendar

(* Program constants *)

TopLangs == 8      \* sorted(...)[:8]
ShaLen == 7        \* cm.get("sha", "")[:7]
MsgLen == 44       \* ...split("\n")[0][:44]
MaxResult == 5     \* result[:5]

---------------------------------------------------------------------------
(* Python values *)

Unset == "unset"
\* a local of main before its assignment, and a request not yet answered
Unbound == [unbound |-> TRUE]
NoResponse == [kind |-> "none", body |-> <<>>]
EmptyDict == [k \in {} |-> 0]

\* d.get(k, dflt); also (d.get(k) or dflt) for the values the model holds
Get(d, k, dflt) == IF k \in DOMAIN d THEN d[k] ELSE dflt

Return(v) == [exc |-> "none", val |-> v]
Raise(e) == [exc |-> e, val |-> Unset]

Min(a, b) == IF a <= b THEN a ELSE b

\* s[:n]
Prefix(s, n) == SubSeq(s, 1, Min(n, Len(s)))

---------------------------------------------------------------------------
(* HTTP: a response is [kind, body]; kind "ok" carries the parsed JSON     *)
(* body, "neterr" makes urlopen raise, "badjson" makes json.loads raise.   *)

Kinds == {"ok", "neterr", "badjson"}
Ok(body) == [kind |-> "ok", body |-> body]
NetErr == [kind |-> "neterr", body |-> EmptyDict]
BadJson == [kind |-> "badjson", body |-> EmptyDict]
Failures == {NetErr, BadJson}

\* json.loads(urlopen(req).read())
Urlopen(resp) ==
    CASE resp.kind = "ok" -> Return(resp.body)
      [] resp.kind = "neterr" -> Raise("URLError")
      [] resp.kind = "badjson" -> Raise("JSONDecodeError")

\* gql without its try/except
gql_NoCatch(resp) == Urlopen(resp)

\* gql: try: return json.loads(...) except Exception: return {}
gql(resp) ==
    LET r == Urlopen(resp)
    IN IF r.exc = "none" THEN r ELSE Return(EmptyDict)

---------------------------------------------------------------------------
(* fetch_stats: the streak                                                 *)

\* for d in reversed(days): the inner loop from day i down to day 1.
\* broke is TRUE when the loop left through break (the for's else is skipped).
RECURSIVE ScanDays(_, _, _)
ScanDays(days, i, streak) ==
    IF i = 0 THEN [streak |-> streak, broke |-> FALSE]
    ELSE IF Get(days[i], "contributionCount", 0) > 0
         THEN ScanDays(days, i - 1, streak + 1)
         ELSE IF streak > 0
              THEN [streak |-> streak, broke |-> TRUE]
              ELSE ScanDays(days, i - 1, streak)

\* the scan whose break leaves only the loop over the days of one week
RECURSIVE ScanWeeks_InnerBreakOnly(_, _, _)
ScanWeeks_InnerBreakOnly(weeks, w, streak) ==
    IF w = 0 THEN streak
    ELSE LET days == Get(weeks[w], "contributionDays", <<>>)
             r == ScanDays(days, Len(days), streak)
         IN ScanWeeks_InnerBreakOnly(weeks, w - 1, r.streak)

\* for w in reversed(weeks): ... else: continue / break
RECURSIVE ScanWeeks(_, _, _)
ScanWeeks(weeks, w, streak) ==
    IF w = 0 THEN streak
    ELSE LET days == Get(weeks[w], "contributionDays", <<>>)
             r == ScanDays(days, Len(days), streak)
         IN IF r.broke THEN r.streak ELSE ScanWeeks(weeks, w - 1, r.streak)

\* streak = 0; for w in reversed(weeks): ...
StreakScan(weeks) == ScanWeeks(weeks, Len(weeks), 0)

---------------------------------------------------------------------------
(* fetch_stats: the languages                                              *)

\* A dict that keeps insertion order: a sequence of [name, size].
RECURSIVE IndexOf(_, _, _)
IndexOf(m, name, i) ==
    IF i > Len(m) THEN 0
    ELSE IF m[i].name = name THEN i ELSE IndexOf(m, name, i + 1)

\* lang_map[name] = e["size"]: the last size replaces the sum
LangAdd_Overwrite(m, e) ==
    LET name == e.node.name
        i == IndexOf(m, name, 1)
    IN IF i = 0
       THEN Append(m, [name |-> name, size |-> e.size])
       ELSE [m EXCEPT ![i].size = e.size]

\* lang_map[name] = lang_map.get(name, 0) + e["size"]
LangAdd(m, e) ==
    LET name == e.node.name
        i == IndexOf(m, name, 1)
    IN IF i = 0
       THEN Append(m, [name |-> name, size |-> e.size])
       ELSE [m EXCEPT ![i].size = @ + e.size]

RECURSIVE LangEdges(_, _, _)
LangEdges(m, edges, i) ==
    IF i > Len(edges) THEN m
    ELSE LangEdges(LangAdd(m, edges[i]), edges, i + 1)

\* for n in nodes: for e in (n.get("languages") or {}).get("edges") or []: ...
RECURSIVE LangNodes(_, _, _)
LangNodes(m, nodes, i) ==
    IF i > Len(nodes) THEN m
    ELSE LangNodes(
             LangEdges(m, Get(Get(nodes[i], "languages", EmptyDict), "edges", <<>>), 1),
             nodes, i + 1)

LangMap(nodes) == LangNodes(<<>>, nodes, 1)

RECURSIVE SumSizes(_, _)
SumSizes(m, i) == IF i > Len(m) THEN 0 ELSE m[i].size + SumSizes(m, i + 1)

\* total = sum(lang_map.values()), without the "or 1"
LangTotal_NoGuard(m) == SumSizes(m, 1)

\* total = sum(lang_map.values()) + 1
LangTotal_PlusOne(m) == SumSizes(m, 1) + 1

\* total = sum(lang_map.values()) or 1
LangTotal(m) == LET s == SumSizes(m, 1) IN IF s = 0 THEN 1 ELSE s

\* One step of a stable sort on key -size: x goes after every item whose size
\* is at least its own.
RECURSIVE InsertSorted(_, _, _)
InsertSorted(s, x, i) ==
    IF i > Len(s) THEN Append(s, x)
    ELSE IF s[i].size >= x.size THEN InsertSorted(s, x, i + 1)
         ELSE SubSeq(s, 1, i - 1) \o <<x>> \o SubSeq(s, i, Len(s))

RECURSIVE SortFrom(_, _, _)
SortFrom(acc, m, i) ==
    IF i > Len(m) THEN acc ELSE SortFrom(InsertSorted(acc, m[i], 1), m, i + 1)

\* A sort that puts an item before the items of equal size.
SortBySize_TiesReversed(m) ==
    LET RECURSIVE Ins(_, _, _)
        Ins(s, x, i) ==
            IF i > Len(s) THEN Append(s, x)
            ELSE IF s[i].size > x.size THEN Ins(s, x, i + 1)
                 ELSE SubSeq(s, 1, i - 1) \o <<x>> \o SubSeq(s, i, Len(s))
        RECURSIVE From(_, _)
        From(acc, i) == IF i > Len(m) THEN acc ELSE From(Ins(acc, m[i], 1), i + 1)
    IN From(<<>>, 1)

\* sorted(lang_map.items(), key=lambda x: -x[1]): Python's sort is stable
SortBySize(m) == SortFrom(<<>>, m, 1)

\* size / total * 100, exactly
Percent(size, total) ==
    IF total = 0 THEN Raise("ZeroDivisionError")
    ELSE Return([num |-> size * 100, den |-> total])

\* langs = [(name, size / total * 100) for name, size in langs]
Percentages(top, total) ==
    LET ps == [i \in 1..Len(top) |-> Percent(top[i].size, total)]
    IN IF \E i \in 1..Len(top) : ps[i].exc # "none"
       THEN Raise("ZeroDivisionError")
       ELSE Return([i \in 1..Len(top) |-> [name |-> top[i].name, pct |-> ps[i].val]])

RECURSIVE SumStars(_, _)
SumStars(nodes, i) ==
    IF i > Len(nodes) THEN 0
    ELSE Get(nodes[i], "stargazerCount", 0) + SumStars(nodes, i + 1)

\* fetch_stats, given the response its request comes back with
fetch_stats(resp) ==
    LET g == gql(resp)
    IN IF g.exc # "none" THEN g
       ELSE
       LET data == g.val
           u == Get(Get(data, "data", EmptyDict), "user", EmptyDict)
           repos_data == Get(u, "repositories", EmptyDict)
           repos == Get(repos_data, "totalCount", 0)
           nodes == Get(repos_data, "nodes", <<>>)
           stars == SumStars(nodes, 1)
           followers == Get(Get(u, "followers", EmptyDict), "totalCount", 0)
           cc == Get(u, "contributionsCollection", EmptyDict)
           commits == Get(cc, "totalCommitContributions", 0)
           cal == Get(cc, "contributionCalendar", EmptyDict)
           total_contributions == Get(cal, "totalContributions", 0)
           weeks == Get(cal, "weeks", <<>>)
           streak == StreakScan(weeks)
           lang_map == LangMap(nodes)
           total == LangTotal(lang_map)
           top == Prefix(SortBySize(lang_map), TopLangs)
           langs == Percentages(top, total)
       IN IF langs.exc # "none" THEN langs
          ELSE Return([repos |-> repos, stars |-> stars, followers |-> followers,
                       commits |-> commits, streak |-> streak,
                       total |-> total_contributions,
                       langs |-> langs.val, weeks |-> weeks])

---------------------------------------------------------------------------
(* str operations *)

\* s.split("\n")[0]: the text before the first sep
RECURSIVE SplitFirst(_, _, _)
SplitFirst(s, sep, i) ==
    IF i > Len(s) THEN s
    ELSE IF s[i] = sep THEN SubSeq(s, 1, i - 1) ELSE SplitFirst(s, sep, i + 1)

\* s.split("/")[-1]: the text after the last sep
RECURSIVE SplitLast(_, _, _)
SplitLast(s, sep, i) ==
    IF i = 0 THEN s
    ELSE IF s[i] = sep THEN SubSeq(s, i + 1, Len(s)) ELSE SplitLast(s, sep, i - 1)

---------------------------------------------------------------------------
(* fetch_events *)

\* for cm in commits: result.append({"sha": ..., "repo": ..., "msg": ..., "ts": ...})
RECURSIVE EventCommits(_, _, _, _)
EventCommits(result, ev, commits, i) ==
    IF i > Len(commits) THEN result
    ELSE LET cm == commits[i]
             repo == LET name == Get(Get(ev, "repo", EmptyDict), "name", <<>>)
                     IN SplitLast(name, "/", Len(name))
             sha == Prefix(Get(cm, "sha", <<>>), ShaLen)
             msg == LET m == Get(cm, "message", <<>>)
                    IN Prefix(SplitFirst(m, "\n", 1), MsgLen)
             ts == Get(ev, "created_at", "")
         IN EventCommits(Append(result, [sha |-> sha, repo |-> repo, msg |-> msg, ts |-> ts]),
                         ev, commits, i + 1)

\* The loop without "if ev.get("type") != "PushEvent": continue"
RECURSIVE EventLoop_AnyType(_, _, _)
EventLoop_AnyType(result, evs, i) ==
    IF i > Len(evs) THEN result
    ELSE EventLoop_AnyType(
             EventCommits(result, evs[i],
                          Get(Get(evs[i], "payload", EmptyDict), "commits", <<>>), 1),
             evs, i + 1)

\* for ev in events: if ev.get("type") != "PushEvent": continue ...
RECURSIVE EventLoop(_, _, _)
EventLoop(result, evs, i) ==
    IF i > Len(evs) THEN result
    ELSE IF Get(evs[i], "type", Unset) # "PushEvent"
         THEN EventLoop(result, evs, i + 1)
         ELSE EventLoop(
                  EventCommits(result, evs[i],
                               Get(Get(evs[i], "payload", EmptyDict), "commits", <<>>), 1),
                  evs, i + 1)

\* fetch_events, given the response its request comes back with
fetch_events(resp) ==
    LET r == Urlopen(resp)
    IN IF r.exc # "none" THEN Return(<<>>)
       ELSE Return(Prefix(EventLoop(<<>>, r.val, 1), MaxResult))

---------------------------------------------------------------------------
(* re and str matching, on sequences of characters *)

UpperCase == <<"A", "B", "C", "D", "E", "F", "G", "H", "I", "J", "K", "L", "M", "N", "O", "P", "Q", "R", "S", "T", "U", "V", "W", "X", "Y", "Z">>
LowerCase == <<"a", "b", "c", "d", "e", "f", "g", "h", "i", "j", "k", "l", "m", "n", "o", "p", "q", "r", "s", "t", "u", "v", "w", "x", "y", "z">>
Digits == {"0", "1", "2", "3", "4", "5", "6", "7", "8", "9"}

\* One character standing for U+1F916, the robot face of AI_PATTERNS[2]
Robot == "U+1F916"

\* str.lower(), and what (?i) compares
LowerChar(c) ==
    IF \E i \in 1..Len(UpperCase) : UpperCase[i] = c
    THEN LowerCase[CHOOSE i \in 1..Len(UpperCase) : UpperCase[i] = c]
    ELSE c
Lower(s) == [i \in 1..Len(s) |-> LowerChar(s[i])]

\* \w and \s
Letters == {UpperCase[i] : i \in 1..Len(UpperCase)} \cup {LowerCase[i] : i \in 1..Len(LowerCase)}
IsWord(c) == c = "_" \/ c \in Digits \/ c \in Letters
IsSpace(c) == c \in {" ", "\t", "\n", "\r", "\f"}

\* the literal lit starts at position i of t
LitAt(t, i, lit) ==
    /\ i >= 1
    /\ i + Len(lit) - 1 <= Len(t)
    /\ SubSeq(t, i, i + Len(lit) - 1) = lit

\* \b between positions i - 1 and i of t
WordAt(t, i) == i >= 1 /\ i <= Len(t) /\ IsWord(t[i])
Boundary(t, i) == WordAt(t, i - 1) # WordAt(t, i)

\* keyword in text
Contains(text, lit) == \E t \in {text} : \E i \in 1..Len(t) : LitAt(t, i, lit)

\* the positions after an optional "-" at position i
AfterDash(t, i) == {i} \cup (IF i <= Len(t) /\ t[i] = "-" THEN {i + 1} ELSE {})

\* co-?authored-?by: from position i: the positions right after the match
HeadEnds(t, i) ==
    IF ~LitAt(t, i, <<"c", "o">>) THEN {}
    ELSE {q + 3 : q \in {q \in UNION {AfterDash(t, p + 8) :
                                 p \in {p \in AfterDash(t, i + 2) : LitAt(t, p, <<"a", "u", "t", "h", "o", "r", "e", "d">>)}} :
                         LitAt(t, q, <<"b", "y", ":">>)}}

Tools1 == {<<"c", "l", "a", "u", "d", "e">>,
     <<"c", "o", "p", "i", "l", "o", "t">>,
     <<"g", "p", "t">>,
     <<"g", "e", "m", "i", "n", "i">>,
     <<"c", "u", "r", "s", "o", "r">>,
     <<"c", "o", "d", "e", "i", "u", "m">>,
     <<"t", "a", "b", "n", "i", "n", "e">>}

\* (claude|...|tabnine|amazon.?q) from position k: the positions after the match
ToolEnds(t, k) ==
    {k + Len(w) : w \in {w \in Tools1 : LitAt(t, k, w)}}
    \cup (IF LitAt(t, k, <<"a", "m", "a", "z", "o", "n">>)
          THEN {e + 1 : e \in {e \in {k + 6, k + 7} :
                          /\ LitAt(t, e, <<"q">>)
                          /\ (e = k + 7 => t[k + 6] # "\n")}}
          ELSE {})

\* (?i)co-?authored-?by:.*\b(claude|...|amazon.?q)\b
Pattern1(t) ==
    \E i \in 1..Len(t) : \E a \in HeadEnds(t, i) : \E k \in a..Len(t) :
        /\ \A j \in a..(k - 1) : t[j] # "\n"
        /\ Boundary(t, k)
        /\ \E e \in ToolEnds(t, k) : Boundary(t, e)

Tools2 == {<<"a", "i">>,
     <<"l", "l", "m">>,
     <<"c", "o", "p", "i", "l", "o", "t">>,
     <<"c", "l", "a", "u", "d", "e">>,
     <<"g", "p", "t">>,
     <<"c", "u", "r", "s", "o", "r">>}
Verbs2 == {<<"a", "s", "s", "i", "s", "t", "e", "d">>,
     <<"g", "e", "n", "e", "r", "a", "t", "e", "d">>,
     <<"p", "a", "i", "r", "e", "d">>,
     <<"h", "e", "l", "p", "e", "d">>}

\* (?i)\b(ai|llm|copilot|claude|gpt|cursor)\s*(assisted|generated|paired|helped)
Pattern2(t) ==
    \E i \in 1..Len(t) : \E w \in Tools2 :
        /\ LitAt(t, i, w)
        /\ Boundary(t, i)
        /\ \E j \in (i + Len(w))..Len(t) :
              /\ \A x \in (i + Len(w))..(j - 1) : IsSpace(t[x])
              /\ \E v \in Verbs2 : LitAt(t, j, v)

\* (?i) followed by the robot face
Pattern3(t) == \E i \in 1..Len(t) : t[i] = Robot

NumPatterns == 3

\* re.search(AI_PATTERNS[p - 1], msg)
re_search(p, msg) ==
    \E t \in {Lower(msg)} :
        CASE p = 1 -> Pattern1(t)
          [] p = 2 -> Pattern2(t)
          [] p = 3 -> Pattern3(t)

---------------------------------------------------------------------------
(* fetch_ai_ratio *)

\* AI_NAMES, in the order of the dict
AI_NAMES ==
    << [keyword |-> <<"c", "l", "a", "u", "d", "e">>, name |-> "NAVI"],
       [keyword |-> <<"c", "o", "p", "i", "l", "o", "t">>, name |-> "TATL"],
       [keyword |-> <<"g", "p", "t">>, name |-> "TAEL"],
       [keyword |-> <<"g", "e", "m", "i", "n", "i">>, name |-> "MIDNA"],
       [keyword |-> <<"c", "u", "r", "s", "o", "r">>, name |-> "FI"],
       [keyword |-> <<"c", "o", "d", "e", "i", "u", "m">>, name |-> "EZLO"],
       [keyword |-> <<"t", "a", "b", "n", "i", "n", "e">>, name |-> "CIELA"] >>

\* d[k] = d.get(k, 0) + 1
DictInc(d, k) ==
    IF k \in DOMAIN d THEN [d EXCEPT ![k] = @ + 1]
    ELSE [x \in DOMAIN d \cup {k} |-> IF x = k THEN 1 ELSE d[x]]

\* the keywords tried from the last of AI_NAMES to the first
WhichAI_Reversed(text, n) ==
    LET RECURSIVE Back(_)
        Back(k) ==
            IF k < n THEN "NAVI"
            ELSE IF Contains(text, AI_NAMES[k].keyword) THEN AI_NAMES[k].name
                 ELSE Back(k - 1)
    IN Back(Len(AI_NAMES))

\* for keyword, name in AI_NAMES.items(): if keyword in text: ...; break
\* and the "if not matched" that follows: the name whose count goes up
RECURSIVE WhichAI(_, _)
WhichAI(text, n) ==
    IF n > Len(AI_NAMES) THEN "NAVI"
    ELSE IF Contains(text, AI_NAMES[n].keyword) THEN AI_NAMES[n].name
         ELSE WhichAI(text, n + 1)

\* the loop over AI_PATTERNS without its break: one count for each pattern
\* that matches
RECURSIVE PatternLoop_NoBreak(_, _, _)
PatternLoop_NoBreak(acc, msg, p) ==
    IF p > NumPatterns THEN acc
    ELSE IF re_search(p, msg)
         THEN PatternLoop_NoBreak(
                  [acc EXCEPT !.ai_count = @ + 1,
                              !.ai_breakdown = DictInc(@, WhichAI(Lower(msg), 1))],
                  msg, p + 1)
         ELSE PatternLoop_NoBreak(acc, msg, p + 1)

\* for pat in AI_PATTERNS: if re.search(pat, msg): ...; break
RECURSIVE PatternLoop(_, _, _)
PatternLoop(acc, msg, p) ==
    IF p > NumPatterns THEN acc
    ELSE IF re_search(p, msg)
         THEN [acc EXCEPT !.ai_count = @ + 1,
                          !.ai_breakdown = DictInc(@, WhichAI(Lower(msg), 1))]
         ELSE PatternLoop(acc, msg, p + 1)

RECURSIVE AiCommits(_, _, _)
AiCommits(acc, commits, i) ==
    IF i > Len(commits) THEN acc
    ELSE AiCommits(
             PatternLoop([acc EXCEPT !.total = @ + 1], Get(commits[i], "message", <<>>), 1),
             commits, i + 1)

RECURSIVE AiLoop(_, _, _)
AiLoop(acc, evs, i) ==
    IF i > Len(evs) THEN acc
    ELSE IF Get(evs[i], "type", Unset) # "PushEvent"
         THEN AiLoop(acc, evs, i + 1)
         ELSE AiLoop(
                  AiCommits(acc, Get(Get(evs[i], "payload", EmptyDict), "commits", <<>>), 1),
                  evs, i + 1)

AiZero == [total |-> 0, ai_count |-> 0, ai_breakdown |-> EmptyDict]

\* fetch_ai_ratio, given the response its request comes back with
fetch_ai_ratio(resp) ==
    LET r == Urlopen(resp)
    IN IF r.exc # "none" THEN Return(AiZero)
       ELSE Return(AiLoop(AiZero, r.val, 1))

---------------------------------------------------------------------------
(* Rendering: what each panel draws *)

Max(a, b) == IF a >= b THEN a ELSE b

NumHearts == 10    \* for i in range(10)
HeartDays == 7     \* stats["streak"] // 7

\* svg_hud with num_hearts = min(10, max(1, streak // 7))
svg_hud_NoBonus(st) ==
    LET num_hearts == Min(NumHearts, Max(1, st.streak \div HeartDays))
    IN [num_hearts |-> num_hearts,
        hearts |-> [h \in 1..NumHearts |-> h - 1 < num_hearts],
        rupees |-> st.stars,
        keys |-> st.repos]

\* svg_hud: the hearts, filled for i < num_hearts, the rupees and the keys
svg_hud(st) ==
    LET num_hearts == Min(NumHearts,
                          Max(1, st.streak \div HeartDays + (IF st.streak > 0 THEN 1 ELSE 0)))
    IN [num_hearts |-> num_hearts,
        hearts |-> [h \in 1..NumHearts |-> h - 1 < num_hearts],
        rupees |-> st.stars,
        keys |-> st.repos]

MapWeeks == 26     \* weeks[-26:] if len(weeks) >= 26 else weeks

\* if cnt == 0: lvl = 0 elif cnt <= 2: ... else: lvl = 4
Level(cnt) ==
    IF cnt = 0 THEN 0
    ELSE IF cnt <= 2 THEN 1
    ELSE IF cnt <= 5 THEN 2
    ELSE IF cnt <= 9 THEN 3
    ELSE 4

\* for di, d in enumerate(days): one cell for each day of the week
MapColumn(w) ==
    LET days == Get(w, "contributionDays", <<>>)
    IN [di \in 1..Len(days) |-> Level(Get(days[di], "contributionCount", 0))]

\* svg_dungeon_map with display_weeks = weeks[:26]
svg_dungeon_map_Oldest(weeks) ==
    LET display_weeks == IF Len(weeks) >= MapWeeks THEN SubSeq(weeks, 1, MapWeeks)
                         ELSE weeks
    IN [wi \in 1..Len(display_weeks) |-> MapColumn(display_weeks[wi])]

\* svg_dungeon_map: the columns of the heatmap, one for each displayed week
svg_dungeon_map(weeks) ==
    LET display_weeks == IF Len(weeks) >= MapWeeks
                         THEN SubSeq(weeks, Len(weeks) - MapWeeks + 1, Len(weeks))
                         ELSE weeks
    IN [wi \in 1..Len(display_weeks) |-> MapColumn(display_weeks[wi])]

\* LANG_SHORT
LANG_SHORT ==
    [n \in {"Python", "TypeScript", "JavaScript", "Rust", "Go", "Shell", "HTML",
            "CSS", "Java", "C++", "C", "Ruby", "Swift", "Kotlin", "Dart", "Lua",
            "PHP", "Scala", "Haskell", "Elixir", "Zig"} |->
        CASE n = "Python" -> "PY" [] n = "TypeScript" -> "TS" [] n = "JavaScript" -> "JS"
          [] n = "Rust" -> "RST" [] n = "Go" -> "GO" [] n = "Shell" -> "SH"
          [] n = "HTML" -> "HTML" [] n = "CSS" -> "CSS" [] n = "Java" -> "JAVA"
          [] n = "C++" -> "C++" [] n = "C" -> "C" [] n = "Ruby" -> "RB"
          [] n = "Swift" -> "SWF" [] n = "Kotlin" -> "KT" [] n = "Dart" -> "DRT"
          [] n = "Lua" -> "LUA" [] n = "PHP" -> "PHP" [] n = "Scala" -> "SCL"
          [] n = "Haskell" -> "HSK" [] n = "Elixir" -> "ELX" [] n = "Zig" -> "ZIG"]

\* name[:4].upper(), for the names outside LANG_SHORT that the model uses
Upper4 ==
    [n \in {"Perl", "Objective-C", "R"} |->
        CASE n = "Perl" -> "PERL" [] n = "Objective-C" -> "OBJE" [] n = "R" -> "R"]

\* LANG_SHORT.get(name, name[:4].upper())
Short(name) == IF name \in DOMAIN LANG_SHORT THEN LANG_SHORT[name] ELSE Upper4[name]

NumSlots == 8      \* num_slots = 8

\* svg_inventory that draws a slot only for a language
svg_inventory_NoPlaceholders(langs) ==
    [i \in 1..Min(NumSlots, Len(langs)) |->
        [filled |-> TRUE, name |-> langs[i].name, short |-> Short(langs[i].name),
         pct |-> langs[i].pct]]

\* svg_inventory: for i in range(num_slots): a filled slot with the label and
\* the percentage of langs[i] if i < len(langs), else an empty slot
svg_inventory(langs) ==
    [i \in 1..NumSlots |->
        IF i - 1 < Len(langs)
        THEN [filled |-> TRUE, name |-> langs[i].name, short |-> Short(langs[i].name),
              pct |-> langs[i].pct]
        ELSE [filled |-> FALSE]]

\* svg_party without "if total > 0 else"
svg_party_NoGuard(total, ai_count, ai_breakdown) ==
    IF total = 0 THEN Raise("ZeroDivisionError")
    ELSE Return([hero_pct |-> [num |-> (total - ai_count) * 100, den |-> total],
                 ai_pct |-> [num |-> ai_count * 100, den |-> total]])

\* svg_party: hero_pct and ai_pct
svg_party(total, ai_count, ai_breakdown) ==
    IF total > 0
    THEN Return([hero_pct |-> [num |-> (total - ai_count) * 100, den |-> total],
                 ai_pct |-> [num |-> ai_count * 100, den |-> total]])
    ELSE Return([hero_pct |-> [num |-> 100, den |-> 1],
                 ai_pct |-> [num |-> 0, den |-> 1]])

generate_svg(st, evs, total, ai_count, ai_breakdown) ==
    LET party == svg_party(total, ai_count, ai_breakdown)
    IN IF party.exc # "none" THEN party
       ELSE Return([hud |-> svg_hud(st),
                    map |-> svg_dungeon_map(st.weeks),
                    inventory |-> svg_inventory(st.langs),
                    party |-> party.val])

---------------------------------------------------------------------------
(* main's placeholder data *)

\* random.seed(42), then random.randint(0, 12) for 26 weeks of 7 days
PlaceholderCounts ==
    << <<10, 1, 0, 11, 4, 3, 3>>,
       <<2, 11, 1, 10, 11, 8, 1>>,
       <<9, 6, 0, 0, 1, 3, 3>>,
       <<8, 9, 0, 8, 3, 11, 10>>,
       <<11, 8, 6, 3, 7, 9, 4>>,
       <<12, 0, 12, 12, 2, 11, 6>>,
       <<5, 4, 2, 3, 12, 5, 1>>,
       <<1, 6, 1, 5, 5, 9, 4>>,
       <<12, 0, 11, 7, 8, 1, 6>>,
       <<1, 8, 4, 10, 9, 5, 9>>,
       <<3, 11, 1, 0, 10, 3, 12>>,
       <<4, 1, 3, 1, 6, 4, 7>>,
       <<10, 5, 2, 5, 5, 3, 10>>,
       <<4, 11, 10, 10, 1, 9, 10>>,
       <<2, 8, 11, 3, 2, 7, 6>>,
       <<4, 10, 11, 8, 3, 10, 5>>,
       <<12, 12, 0, 3, 0, 12, 5>>,
       <<6, 4, 1, 3, 9, 11, 5>>,
       <<3, 10, 7, 6, 10, 7, 2>>,
       <<4, 2, 3, 11, 8, 8, 4>>,
       <<11, 9, 6, 9, 6, 5, 3>>,
       <<2, 8, 7, 1, 12, 0, 1>>,
       <<2, 10, 2, 12, 10, 6, 9>>,
       <<1, 6, 6, 9, 7, 8, 4>>,
       <<8, 0, 10, 11, 1, 10, 8>>,
       <<12, 4, 12, 10, 5, 1, 4>> >>

PlaceholderStats ==
    [repos |-> 42, stars |-> 89, followers |-> 15, commits |-> 1234,
     streak |-> 28, total |-> 1500,
     langs |-> << [name |-> "Python", pct |-> [num |-> 452, den |-> 10]],
                  [name |-> "TypeScript", pct |-> [num |-> 231, den |-> 10]],
                  [name |-> "Rust", pct |-> [num |-> 124, den |-> 10]],
                  [name |-> "Go", pct |-> [num |-> 87, den |-> 10]],
                  [name |-> "Shell", pct |-> [num |-> 62, den |-> 10]],
                  [name |-> "HTML", pct |-> [num |-> 44, den |-> 10]] >>,
     weeks |-> [w \in 1..Len(PlaceholderCounts) |->
                  [contributionDays |->
                     [d \in 1..Len(PlaceholderCounts[w]) |->
                        [contributionCount |-> PlaceholderCounts[w][d], date |-> d]]]]]

PlaceholderEvents ==
    << [sha |-> <<"a", "1", "b", "2", "c", "3", "f">>,
        repo |-> <<"b", "i", "g", "m", "a", "c", "f", "i", "v", "e">>,
        msg |-> <<"f", "e", "a", "t", ":", " ", "a", "d", "d", " ", "z", "e", "l", "d", "a", " ", "d", "a", "s", "h", "b", "o", "a", "r", "d", " ", "t", "h", "e", "m", "e">>,
        ts |-> "2025-01-15T10:00:00Z"],
       [sha |-> <<"d", "4", "e", "5", "f", "6", "a">>,
        repo |-> <<"d", "o", "t", "f", "i", "l", "e", "s">>,
        msg |-> <<"f", "i", "x", ":", " ", "u", "p", "d", "a", "t", "e", " ", "s", "h", "e", "l", "l", " ", "a", "l", "i", "a", "s", "e", "s">>,
        ts |-> "2025-01-14T08:00:00Z"],
       [sha |-> <<"g", "7", "h", "8", "i", "9", "j">>,
        repo |-> <<"a", "p", "i", "-", "s", "e", "r", "v", "e", "r">>,
        msg |-> <<"r", "e", "f", "a", "c", "t", "o", "r", ":", " ", "c", "l", "e", "a", "n", " ", "u", "p", " ", "m", "i", "d", "d", "l", "e", "w", "a", "r", "e">>,
        ts |-> "2025-01-13T06:00:00Z"],
       [sha |-> <<"k", "0", "l", "1", "m", "2", "n">>,
        repo |-> <<"b", "i", "g", "m", "a", "c", "f", "i", "v", "e">>,
        msg |-> <<"c", "h", "o", "r", "e", ":", " ", "u", "p", "d", "a", "t", "e", " ", "d", "e", "p", "e", "n", "d", "e", "n", "c", "i", "e", "s">>,
        ts |-> "2025-01-12T12:00:00Z"],
       [sha |-> <<"o", "3", "p", "4", "q", "5", "r">>,
        repo |-> <<"w", "e", "b", "a", "p", "p">>,
        msg |-> <<"f", "e", "a", "t", ":", " ", "i", "m", "p", "l", "e", "m", "e", "n", "t", " ", "d", "a", "r", "k", " ", "m", "o", "d", "e", " ", "t", "o", "g", "g", "l", "e">>,
        ts |-> "2025-01-11T15:00:00Z"] >>

PlaceholderAi ==
    [total |-> 100, ai_count |-> 35,
     ai_breakdown |-> [n \in {"NAVI", "TATL"} |-> IF n = "NAVI" THEN 30 ELSE 5]]

---------------------------------------------------------------------------
(* main *)

\* An uncaught exception ends main.
Crash(e, site) ==
    /\ pc' = "crashed"
    /\ exc' = [type |-> e, site |-> site]

\* main when it fetches whether or not TOKEN is set
MainStart_AlwaysFetch ==
    /\ pc = "main"
    /\ pc' = "fetch_stats"
    /\ UNCHANGED <<token, statsResp, eventsResp, aiResp, stats, events, ai, svg,
                   log, written, exc>>

\* if TOKEN: ... else: placeholder data
MainStart ==
    /\ pc = "main"
    /\ IF token
       THEN /\ pc' = "fetch_stats"
            /\ UNCHANGED <<stats, events, ai>>
       ELSE /\ stats' = PlaceholderStats
            /\ events' = PlaceholderEvents
            /\ ai' = PlaceholderAi
            /\ pc' = "generate_svg"
    /\ UNCHANGED <<token, statsResp, eventsResp, aiResp, svg, log, written, exc>>

\* stats = fetch_stats(): the request goes out
SendStats(r) ==
    /\ pc = "fetch_stats"
    /\ statsResp' = r
    /\ log' = Append(log, "stats:request")
    /\ pc' = "in_fetch_stats"
    /\ UNCHANGED <<token, eventsResp, aiResp, stats, events, ai, svg, written, exc>>

\* stats = fetch_stats(): the response comes back and the function returns
RecvStats ==
    /\ pc = "in_fetch_stats"
    /\ log' = Append(log, "stats:done")
    /\ \E r \in {fetch_stats(statsResp)} :
          IF r.exc = "none"
          THEN stats' = r.val /\ pc' = "fetch_events" /\ exc' = exc
          ELSE Crash(r.exc, "fetch_stats") /\ stats' = stats
    /\ UNCHANGED <<token, statsResp, eventsResp, aiResp, events, ai, svg, written>>

\* events = fetch_events(): the request goes out
SendEvents(r) ==
    /\ pc = "fetch_events"
    /\ eventsResp' = r
    /\ log' = Append(log, "events:request")
    /\ pc' = "in_fetch_events"
    /\ UNCHANGED <<token, statsResp, aiResp, stats, events, ai, svg, written, exc>>

\* events = fetch_events(): the response comes back and the function returns
RecvEvents ==
    /\ pc = "in_fetch_events"
    /\ log' = Append(log, "events:done")
    /\ \E r \in {fetch_events(eventsResp)} :
          IF r.exc = "none"
          THEN events' = r.val /\ pc' = "fetch_ai_ratio" /\ exc' = exc
          ELSE Crash(r.exc, "fetch_events") /\ events' = events
    /\ UNCHANGED <<token, statsResp, eventsResp, aiResp, stats, ai, svg, written>>

\* total, ai_count, ai_breakdown = fetch_ai_ratio(): the request goes out
SendAi(r) ==
    /\ pc = "fetch_ai_ratio"
    /\ aiResp' = r
    /\ log' = Append(log, "ai:request")
    /\ pc' = "in_fetch_ai_ratio"
    /\ UNCHANGED <<token, statsResp, eventsResp, stats, events, ai, svg, written, exc>>

\* total, ai_count, ai_breakdown = fetch_ai_ratio(): the function returns
RecvAi ==
    /\ pc = "in_fetch_ai_ratio"
    /\ log' = Append(log, "ai:done")
    /\ \E r \in {fetch_ai_ratio(aiResp)} :
          IF r.exc = "none"
          THEN ai' = r.val /\ pc' = "generate_svg" /\ exc' = exc
          ELSE Crash(r.exc, "fetch_ai_ratio") /\ ai' = ai
    /\ UNCHANGED <<token, statsResp, eventsResp, aiResp, stats, events, svg, written>>

\* svg = generate_svg(stats, events, total, ai_count, ai_breakdown)
GenerateSvg ==
    /\ pc = "generate_svg"
    /\ LET r == generate_svg(stats, events, ai.total, ai.ai_count, ai.ai_breakdown)
       IN IF r.exc = "none"
          THEN svg' = r.val /\ pc' = "write" /\ exc' = exc
          ELSE Crash(r.exc, "generate_svg") /\ svg' = svg
    /\ UNCHANGED <<token, statsResp, eventsResp, aiResp, stats, events, ai, log, written>>

\* with open("profile.svg", "w") as f: f.write(svg); print("Done! ...")
WriteFile ==
    /\ pc = "write"
    /\ written' = written + 1
    /\ log' = Append(log, "write")
    /\ pc' = "done"
    /\ UNCHANGED <<token, statsResp, eventsResp, aiResp, stats, events, ai, svg, exc>>

---------------------------------------------------------------------------
(* The responses the requests can come back with *)

\* The body of the GraphQL response for a calendar and a list of repositories
StatsBody(weeks, nodes) ==
    [data |-> [user |->
        [repositories |-> [totalCount |-> Len(nodes), nodes |-> nodes],
         followers |-> [totalCount |-> 15],
         contributionsCollection |->
            [totalCommitContributions |-> 120,
             contributionCalendar |-> [totalContributions |-> 150, weeks |-> weeks]]]]]

\* Calendars: up to MaxDays days in chronological order, each with a count and
\* with or without a missing date before it, cut into weeks of up to
\* MaxWeekLen days, with or without a last week that has no days.
Counts == {0, 1, 3}
DayChoices == Counts \X BOOLEAN

RECURSIVE DateOf(_, _)
DateOf(f, i) ==
    IF i = 1 THEN 1 ELSE DateOf(f, i - 1) + (IF f[i][2] THEN 2 ELSE 1)

DaysOf(f) ==
    [i \in 1..Len(f) |-> [contributionCount |-> f[i][1], date |-> DateOf(f, i)]]

Chunks(days, wl) ==
    [k \in 1..((Len(days) + wl - 1) \div wl) |->
        [contributionDays |-> SubSeq(days, (k - 1) * wl + 1, Min(k * wl, Len(days)))]]

Calendar(f, wl, last) == Chunks(DaysOf(f), wl) \o last

\* Repositories: a first one with up to MaxLangs languages, and possibly a
\* second one that has no languages or one language, old or new.
LangNames ==
    <<"Python", "TypeScript", "JavaScript", "Rust", "Go", "Shell", "HTML",
      "CSS", "Java", "C", "Ruby", "Swift", "Kotlin">>
Sizes1 == {0, 2}
Sizes2 == {0, 1, 3}
Edge(i, size) == [size |-> size, node |-> [name |-> LangNames[i]]]
Repo(edges) == [stargazerCount |-> 1, languages |-> [edges |-> edges]]

SecondRepos(k) ==
    {<<>>, <<[stargazerCount |-> 2]>>}
    \cup {<<Repo(<<Edge(j, z)>>)>> : j \in 1..(k + 1), z \in Sizes2}

NodeList(k, f, second) == <<Repo([i \in 1..k |-> Edge(i, f[i])])>> \o second

\* Event feeds: up to MaxEvents events of two types with up to MaxCommits
\* commits each; a commit's hash and message start with the numbers of its
\* event and of itself.
DigitSeq == <<"0", "1", "2", "3", "4", "5", "6", "7", "8", "9">>
Filler(n) == [i \in 1..n |-> LowerCase[((i - 1) % Len(LowerCase)) + 1]]
Tagged(e, c, n) == Prefix(<<DigitSeq[e + 1], DigitSeq[c + 1]>> \o Filler(n), n)
Stamps == <<"2025-01-15T10:00:00Z", "2025-01-14T08:00:00Z", "2025-01-13T06:00:00Z",
            "2025-01-12T12:00:00Z", "2025-01-11T15:00:00Z">>

Shapes ==
    {[sha |-> ShaLen - 1, line |-> MsgLen - 1, more |-> FALSE, keys |-> TRUE],
     [sha |-> ShaLen, line |-> MsgLen, more |-> TRUE, keys |-> TRUE],
     [sha |-> ShaLen + 1, line |-> MsgLen + 1, more |-> FALSE, keys |-> TRUE],
     [sha |-> ShaLen + 1, line |-> 2, more |-> TRUE, keys |-> TRUE],
     [sha |-> 0, line |-> 0, more |-> TRUE, keys |-> TRUE],
     [sha |-> 0, line |-> 0, more |-> FALSE, keys |-> FALSE]}

Commit(e, c, sh) ==
    IF sh.keys
    THEN [sha |-> Tagged(e, c, sh.sha),
          message |-> Tagged(e, c, sh.line)
                      \o (IF sh.more THEN <<"\n", "x", "y">> ELSE <<>>)]
    ELSE EmptyDict

Event(e, type, n, sh) ==
    [type |-> type,
     repo |-> [name |-> <<"o", "/", "r", DigitSeq[e + 1]>>],
     payload |-> [commits |-> [c \in 1..n |-> Commit(e, c, sh)]],
     created_at |-> Stamps[e]]

EventTypes == {"PushEvent", "WatchEvent"}

Feed(n, f, sh) == [e \in 1..n |-> Event(e, f[e][1], f[e][2], sh)]

\* A few responses of each request, for whole runs of main
SampleCalendar ==
    Chunks(DaysOf(<<<<1, FALSE>>, <<0, FALSE>>, <<3, FALSE>>, <<1, FALSE>>>>), 2)
SampleNodes == <<Repo(<<Edge(1, 2), Edge(2, 0)>>), Repo(<<Edge(2, 3)>>)>>
StatsSamples ==
    {Ok(StatsBody(SampleCalendar, SampleNodes)), Ok(EmptyDict)} \cup Failures

SampleFeed ==
    <<Event(1, "PushEvent", 3, [sha |-> ShaLen + 1, line |-> 2, more |-> TRUE, keys |-> TRUE]),
      Event(2, "WatchEvent", 0, [sha |-> 0, line |-> 0, more |-> FALSE, keys |-> FALSE]),
      Event(3, "PushEvent", 3, [sha |-> ShaLen + 1, line |-> 2, more |-> TRUE, keys |-> TRUE])>>
EventSamples == {Ok(SampleFeed), Ok(<<>>)} \cup Failures

AiCommit(msg) == [sha |-> Tagged(1, 1, ShaLen), message |-> msg]
SampleAiFeed ==
    <<[type |-> "PushEvent",
       repo |-> [name |-> <<"o", "/", "r">>],
       payload |-> [commits |->
          <<AiCommit(<<"f", "i", "x", " ", "t", "y", "p", "o">>),
            AiCommit(<<"C", "o", "p", "i", "l", "o", "t", " ", "a", "s", "s", "i", "s", "t", "e", "d", " ", "r", "e", "f", "a", "c", "t", "o", "r">>),
            AiCommit(<<"f", "e", "a", "t", "\n", "C", "o", "-", "a", "u", "t", "h", "o", "r", "e", "d", "-", "b", "y", ":", " ", "C", "l", "a", "u", "d", "e">>)>>],
       created_at |-> Stamps[1]]>>
AiSamples == {Ok(SampleAiFeed), Ok(<<>>)} \cup Failures

\* Commit messages: no pattern; pattern 1; pattern 2; pattern 3 and no keyword;
\* patterns 1 and 2 at once; two keywords, the later of AI_NAMES first in the
\* text; a keyword and no pattern; pattern 1 without its dashes.
Messages ==
    <<<<"f", "i", "x", " ", "t", "y", "p", "o">>,
      <<"C", "o", "-", "a", "u", "t", "h", "o", "r", "e", "d", "-", "b", "y", ":", " ", "C", "l", "a", "u", "d", "e">>,
      <<"c", "o", "p", "i", "l", "o", "t", " ", "a", "s", "s", "i", "s", "t", "e", "d">>,
      <<Robot>>,
      <<"A", "I", " ", "g", "e", "n", "e", "r", "a", "t", "e", "d", "\n", "C", "o", "-", "A", "u", "t", "h", "o", "r", "e", "d", "-", "B", "y", ":", " ", "C", "u", "r", "s", "o", "r">>,
      <<"g", "p", "t", " ", "h", "e", "l", "p", "e", "d", " ", "c", "l", "a", "u", "d", "e">>,
      <<"u", "s", "e", " ", "c", "u", "r", "s", "o", "r">>,
      <<"c", "o", "a", "u", "t", "h", "o", "r", "e", "d", "b", "y", ":", " ", "t", "a", "b", "n", "i", "n", "e">>>>

\* A feed of n commits, commit c with message Messages[f[c]], cut into events
\* of up to wl commits; event number other is a WatchEvent, the rest PushEvents.
AiFeed(n, f, wl, other) ==
    [k \in 1..((n + wl - 1) \div wl) |->
        [type |-> IF k = other THEN "WatchEvent" ELSE "PushEvent",
         repo |-> [name |-> <<"o", "/", "r">>],
         payload |-> [commits |->
            [c \in 1..(Min(k * wl, n) - (k - 1) * wl) |->
                AiCommit(Messages[f[(k - 1) * wl + c]])]],
         created_at |-> Stamps[1]]]

\* A long calendar in weeks of 7 days: an old day with count > 0, a day with
\* count 0, a run of n days with count > 0, and tail days with count 0.
RunCalendar(n, tail) ==
    Chunks([i \in 1..(n + 2 + tail) |->
               [contributionCount |-> IF i = 2 \/ i > n + 2 THEN 0 ELSE 1 + (i % 3),
                date |-> i]],
           HeartDays)

\* the day counts of the long calendars: every level of the map and its edges
MapCounts == <<0, 1, 2, 3, 5, 6, 9, 10, 12>>

\* A calendar of n weeks of wl days whose counts run through MapCounts
WeekCalendar(n, wl, shift) ==
    [w \in 1..n |->
        [contributionDays |->
            [d \in 1..wl |->
                [contributionCount |-> MapCounts[((w * wl + d + shift) % Len(MapCounts)) + 1],
                 date |-> (w - 1) * wl + d]]]]

\* Language lists of any length, in the form fetch_stats returns them: n
\* distinct names, from position o of AllNames on, with falling percentages.
AllNames == LangNames \o <<"Perl", "Objective-C", "R">>
LangList(n, o) ==
    [i \in 1..n |->
        [name |-> AllNames[((o + i - 1) % Len(AllNames)) + 1],
         pct |-> [num |-> n + 1 - i, den |-> 1]]]

---------------------------------------------------------------------------
(* Specifications *)

Init ==
    /\ token \in BOOLEAN
    /\ pc = "main"
    /\ statsResp = NoResponse
    /\ eventsResp = NoResponse
    /\ aiResp = NoResponse
    /\ stats = Unbound
    /\ events = <<>>
    /\ ai = Unbound
    /\ svg = Unbound
    /\ log = <<>>
    /\ written = 0
    /\ exc = [type |-> "none", site |-> "none"]

\* A run of main
Next ==
    \/ MainStart
    \/ \E r \in StatsSamples : SendStats(r)
    \/ RecvStats
    \/ \E r \in EventSamples : SendEvents(r)
    \/ RecvEvents
    \/ \E r \in AiSamples : SendAi(r)
    \/ RecvAi
    \/ GenerateSvg
    \/ WriteFile

Spec == Init /\ [][Next]_vars

\* main is sequential and every request has a timeout: a run goes on while it can
\* main runs to completion once started: the interpreter always takes the next
\* step of the script, and every step moves pc.
FairSpec == Spec /\ WF_vars(Next)

\* main with a token, up to the return of fetch_stats, over the calendars
InitToken == Init /\ token

StatsOfCalendar ==
    /\ pc = "fetch_stats"
    /\ \E n \in 0..MaxDays : \E f \in [1..n -> DayChoices] :
       \E wl \in 1..MaxWeekLen : \E last \in {<<>>, <<EmptyDict>>} :
          SendStats(Ok(StatsBody(Calendar(f, wl, last), <<>>)))

NextStreak ==
    \/ MainStart
    \/ StatsOfCalendar
    \/ RecvStats

SpecStreak == InitToken /\ [][NextStreak]_vars

\* main with a token, up to the return of fetch_stats, over the repositories
StatsOfRepos ==
    /\ pc = "fetch_stats"
    /\ \E k \in 0..MaxLangs : \E f \in [1..k -> Sizes1] :
       \E second \in SecondRepos(k) :
          SendStats(Ok(StatsBody(<<>>, NodeList(k, f, second))))

NextLangs ==
    \/ MainStart
    \/ StatsOfRepos
    \/ RecvStats

SpecLangs == InitToken /\ [][NextLangs]_vars

\* main with a token, up to the return of fetch_events, over the event feeds
EventsOfFeed ==
    /\ pc = "fetch_events"
    /\ \E n \in 0..MaxEvents : \E f \in [1..n -> EventTypes \X (0..MaxCommits)] :
       \E sh \in Shapes :
          SendEvents(Ok(Feed(n, f, sh)))

NextEvents ==
    \/ MainStart
    \/ SendStats(NetErr)
    \/ RecvStats
    \/ EventsOfFeed
    \/ RecvEvents

SpecEvents == InitToken /\ [][NextEvents]_vars

\* fetch_ai_ratio on every feed of up to MaxAiCommits commits, two to an event
AiOfFeed ==
    /\ pc = "fetch_ai_ratio"
    /\ \E n \in 0..MaxAiCommits : \E f \in [1..n -> 1..Len(Messages)] :
       \E other \in 0..2 :
          SendAi(Ok(AiFeed(n, f, 2, other)))

NextAi ==
    \/ MainStart
    \/ SendStats(NetErr)
    \/ RecvStats
    \/ SendEvents(NetErr)
    \/ RecvEvents
    \/ AiOfFeed
    \/ RecvAi

SpecAi == InitToken /\ [][NextAi]_vars

\* main on long calendars, up to the written file
StatsOfRun ==
    /\ pc = "fetch_stats"
    /\ \E n \in 0..MaxStreak : \E tail \in 0..1 :
          SendStats(Ok(StatsBody(RunCalendar(n, tail), SampleNodes)))

StatsOfWeeks ==
    /\ pc = "fetch_stats"
    /\ \E n \in 0..MaxWeeks : \E wl \in 1..MaxWeekLen : \E shift \in 0..(Len(MapCounts) - 1) :
          SendStats(Ok(StatsBody(WeekCalendar(n, wl, shift), <<>>)))

NextRender ==
    \/ MainStart
    \/ StatsOfRun
    \/ StatsOfWeeks
    \/ RecvStats
    \/ SendEvents(NetErr)
    \/ RecvEvents
    \/ SendAi(NetErr)
    \/ RecvAi
    \/ GenerateSvg
    \/ WriteFile

SpecRender == Init /\ [][NextRender]_vars

\* generate_svg, and with it svg_inventory, applied to language lists of up to
\* MaxLangs languages
InitInventory ==
    /\ token = TRUE
    /\ pc = "generate_svg"
    /\ statsResp = NoResponse
    /\ eventsResp = NoResponse
    /\ aiResp = NoResponse
    /\ \E n \in 0..MaxLangs : \E o \in 0..(Len(AllNames) - 1) :
          stats = [repos |-> n, stars |-> 0, followers |-> 0, commits |-> 0,
                   streak |-> 0, total |-> 0, langs |-> LangList(n, o), weeks |-> <<>>]
    /\ events = <<>>
    /\ ai = AiZero
    /\ svg = Unbound
    /\ log = <<>>
    /\ written = 0
    /\ exc = [type |-> "none", site |-> "none"]

NextInventory == GenerateSvg \/ WriteFile

SpecInventory == InitInventory /\ [][NextInventory]_vars

---------------------------------------------------------------------------
(* What the claims are stated with *)

InLog(what) == \E i \in 1..Len(log) : log[i] = what

\* fetch_stats has returned to main, or an exception has left it
StatsFetched == InLog("stats:done")
\* fetch_stats has returned to main
StatsReturned == StatsFetched /\ exc.site # "fetch_stats"
\* fetch_stats has returned what it made of a parsed response
StatsOk == StatsReturned /\ statsResp.kind = "ok"

EventsFetched == InLog("events:done")
EventsReturned == EventsFetched /\ exc.site # "fetch_events"
AiFetched == InLog("ai:done")
AiReturned == AiFetched /\ exc.site # "fetch_ai_ratio"

Field(d, k, dflt) == IF k \in DOMAIN d THEN d[k] ELSE dflt

RECURSIVE Concat(_)
Concat(ss) == IF ss = <<>> THEN <<>> ELSE Head(ss) \o Concat(Tail(ss))

IsPrefix(a, b) == Len(a) <= Len(b) /\ SubSeq(b, 1, Len(a)) = a

\* The days of the calendar of the response, oldest first
RespWeeks ==
    Field(Field(Field(Field(Field(statsResp.body, "data", EmptyDict), "user", EmptyDict),
                      "contributionsCollection", EmptyDict),
                "contributionCalendar", EmptyDict), "weeks", <<>>)
RespDays ==
    Concat([w \in 1..Len(RespWeeks) |-> Field(RespWeeks[w], "contributionDays", <<>>)])
Positive(days) == {i \in 1..Len(days) : days[i].contributionCount > 0}
Zero(days) == {i \in 1..Len(days) : days[i].contributionCount = 0}
\* a date is missing between day i - 1 and day i
Gaps(days) == {i \in 2..Len(days) : days[i].date - days[i - 1].date > 1}
MaxOf(S) == CHOOSE x \in S : \A y \in S : y <= x

\* the number of consecutive days with count > 0 that end the list
TrailingRun(days) ==
    IF Zero(days) = {} THEN Len(days) ELSE Len(days) - MaxOf(Zero(days))

\* The language edges of the response, in the order of the scan
RespNodes ==
    Field(Field(Field(Field(statsResp.body, "data", EmptyDict), "user", EmptyDict),
                "repositories", EmptyDict), "nodes", <<>>)
RespEdges ==
    Concat([n \in 1..Len(RespNodes) |->
               Field(Field(RespNodes[n], "languages", EmptyDict), "edges", <<>>)])
NamesOf(edges) == {edges[i].node.name : i \in 1..Len(edges)}
RECURSIVE SumWhere(_, _, _)
SumWhere(edges, names, i) ==
    IF i > Len(edges) THEN 0
    ELSE (IF edges[i].node.name \in names THEN edges[i].size ELSE 0)
         + SumWhere(edges, names, i + 1)
\* What the edges say of the languages: sum[n] is the sum of the sizes of
\* language n over all repositories, total the grand total of all sizes,
\* first[n] where n is first encountered.
FactsOf(edges) ==
    [names |-> NamesOf(edges),
     sum |-> [n \in NamesOf(edges) |-> SumWhere(edges, {n}, 1)],
     total |-> SumWhere(edges, NamesOf(edges), 1),
     first |-> [n \in NamesOf(edges) |->
                  CHOOSE i \in 1..Len(edges) :
                      /\ edges[i].node.name = n
                      /\ \A j \in 1..(i - 1) : edges[j].node.name # n]]
EdgeFacts == FactsOf(RespEdges)
ListedIn(langs) == {langs[i].name : i \in 1..Len(langs)}
PosIn(langs, name) == CHOOSE i \in 1..Len(langs) : langs[i].name = name
\* a language of non-zero size is not in the list
NonZeroCutOff(F, langs) == \E name \in F.names \ ListedIn(langs) : F.sum[name] > 0

\* Fractions
RECURSIVE Gcd(_, _)
Gcd(a, b) == IF b = 0 THEN a ELSE Gcd(b, a % b)
Reduce(q) ==
    LET g == Gcd(q.num, q.den)
    IN IF g = 0 THEN q ELSE [num |-> q.num \div g, den |-> q.den \div g]
AddFrac(p, q) == Reduce([num |-> p.num * q.den + q.num * p.den, den |-> p.den * q.den])
RECURSIVE PctSumFrom(_, _)
PctSumFrom(langs, i) ==
    IF i > Len(langs) THEN [num |-> 0, den |-> 1]
    ELSE AddFrac(Reduce(langs[i].pct), PctSumFrom(langs, i + 1))
\* the sum of the reported percentages
PctSum(langs) == PctSumFrom(langs, 1)
PctsInRange(langs) ==
    \A i \in 1..Len(langs) :
        LET q == langs[i].pct
        IN q.den > 0 /\ 0 <= q.num /\ q.num <= 100 * q.den

\* The commits of the PushEvents of the feed, in feed order
RespFeed == eventsResp.body
PushCommits ==
    Concat([e \in 1..Len(RespFeed) |->
              IF Field(RespFeed[e], "type", Unset) = "PushEvent"
              THEN Field(Field(RespFeed[e], "payload", EmptyDict), "commits", <<>>)
              ELSE <<>>])

---------------------------------------------------------------------------
(* The claims about the streak, under SpecStreak *)

\* C1: the streak fetch_stats returns is the number of consecutive days with
\* count > 0 that end at the most recent day of the list, so it is 0 whenever
\* the most recent day has count 0.
C1_StreakEndsAtMostRecentDay ==
    StatsOk => stats.streak = TrailingRun(RespDays)

\* C2: a missing date between two adjacent listed days stops the count as a
\* zero-count day does: once a day after the gap has been counted, no day
\* before the gap is added, so the streak is at most the number of days with
\* count > 0 after the gap.
C2_GapStopsCount ==
    StatsOk =>
        \A g \in Gaps(RespDays) :
            (\E i \in Positive(RespDays) : i >= g)
            => stats.streak <= Cardinality({i \in Positive(RespDays) : i >= g})

---------------------------------------------------------------------------
(* The claims about the languages, under SpecLangs *)

\* C3: each listed language is reported with (the sum of its sizes over all
\* repositories) / (the grand total of all languages' sizes, the unlisted
\* ones included) x 100, and the list is in order of non-increasing summed size.
C3_PercentOfGrandTotal ==
    StatsOk =>
        \A F \in {EdgeFacts} :
            /\ \A i \in 1..Len(stats.langs) :
                  LET l == stats.langs[i]
                  IN /\ l.name \in F.names
                     /\ l.pct.den > 0
                     /\ l.pct.num * F.total = F.sum[l.name] * 100 * l.pct.den
            /\ \A i, j \in 1..Len(stats.langs) :
                  i < j => F.sum[stats.langs[i].name] >= F.sum[stats.langs[j].name]

\* A language with sizes in two repositories is listed while a language of
\* non-zero size is not.
C3_Witness ==
    /\ StatsOk
    /\ NonZeroCutOff(EdgeFacts, stats.langs)
    /\ \E i, j \in 1..Len(RespEdges) :
          /\ i < j
          /\ RespEdges[i].node.name = RespEdges[j].node.name
          /\ RespEdges[i].size > 0
          /\ RespEdges[j].size > 0
          /\ RespEdges[i].node.name \in ListedIn(stats.langs)

\* C4: the list has at most 8 entries, and of two languages of equal summed
\* size the one encountered first comes first: if the later one is listed, so
\* is the earlier one, before it.
C4_TopEightStable ==
    StatsOk =>
        \A F \in {EdgeFacts} : \A L \in {ListedIn(stats.langs)} :
            /\ Len(stats.langs) <= TopLangs
            /\ \A a, b \in F.names :
                  (F.sum[a] = F.sum[b] /\ F.first[a] < F.first[b] /\ b \in L)
                  => (a \in L /\ PosIn(stats.langs, a) < PosIn(stats.langs, b))

\* A tie straddles the cut-off: a listed and an unlisted language have the
\* same summed size.
C4_Witness ==
    /\ StatsOk
    /\ Len(stats.langs) = TopLangs
    /\ \E F \in {EdgeFacts} :
          \E a \in ListedIn(stats.langs) : \E b \in F.names \ ListedIn(stats.langs) :
              F.sum[a] = F.sum[b]

\* C5: when the grand total of the sizes is zero no division by zero leaves
\* fetch_stats: without language records the list is empty, and with records
\* every reported percentage is 0.
C5_ZeroTotal ==
    (StatsFetched /\ statsResp.kind = "ok" /\ EdgeFacts.total = 0) =>
        /\ exc.type = "none"
        /\ (RespEdges = <<>> => stats.langs = <<>>)
        /\ \A i \in 1..Len(stats.langs) :
              stats.langs[i].pct.num = 0 /\ stats.langs[i].pct.den # 0

\* There are language records and all their sizes are 0.
C5_Witness ==
    /\ StatsOk
    /\ EdgeFacts.total = 0
    /\ Len(RespEdges) > 1
    /\ Len(stats.langs) > 1

\* C6 as stated: every percentage is between 0 and 100, they sum to at most
\* 100, and the sum is below 100 only when a language of non-zero size was
\* cut off by the truncation.
C6_SumBelow100OnlyWhenCutOff ==
    StatsOk =>
        \A S \in {PctSum(stats.langs)} :
            /\ PctsInRange(stats.langs)
            /\ S.num <= 100 * S.den
            /\ (S.num < 100 * S.den => NonZeroCutOff(EdgeFacts, stats.langs))

\* C6 as amended: the sum is below 100 only when a language of non-zero size
\* was cut off or the grand total is zero.
C6_SumBelow100OnlyWhenCutOffOrZeroTotal ==
    StatsOk =>
        \A S \in {PctSum(stats.langs)} : \A F \in {EdgeFacts} :
            /\ PctsInRange(stats.langs)
            /\ S.num <= 100 * S.den
            /\ (S.num < 100 * S.den => (NonZeroCutOff(F, stats.langs) \/ F.total = 0))

\* The percentages sum to less than 100 after a cut-off, and a percentage is
\* neither 0 nor 100.
C6_Witness ==
    /\ StatsOk
    /\ NonZeroCutOff(EdgeFacts, stats.langs)
    /\ PctSum(stats.langs).num < 100 * PctSum(stats.langs).den
    /\ \E i \in 1..Len(stats.langs) :
          LET q == stats.langs[i].pct IN 0 < q.num /\ q.num < 100 * q.den

---------------------------------------------------------------------------
(* The claims about whole runs of main, under Spec and FairSpec *)

\* C7: when a fetch fails with a network error or with a body that cannot be
\* parsed, no exception leaves the fetch function and its result is the
\* zero-valued default: all-zero stats with empty langs and weeks from
\* fetch_stats, the empty list from fetch_events, (0, 0, {}) from fetch_ai_ratio.
C7_FailureDefaults ==
    /\ (StatsFetched /\ statsResp.kind # "ok") =>
          /\ exc.site # "fetch_stats"
          /\ stats = [repos |-> 0, stars |-> 0, followers |-> 0, commits |-> 0,
                      streak |-> 0, total |-> 0, langs |-> <<>>, weeks |-> <<>>]
    /\ (EventsFetched /\ eventsResp.kind # "ok") =>
          /\ exc.site # "fetch_events"
          /\ events = <<>>
    /\ (AiFetched /\ aiResp.kind # "ok") =>
          /\ exc.site # "fetch_ai_ratio"
          /\ ai.total = 0
          /\ ai.ai_count = 0
          /\ DOMAIN ai.ai_breakdown = {}

\* All three fetches have failed, in both ways, and main has gone on.
C7_Witness ==
    /\ AiFetched
    /\ statsResp.kind = "neterr"
    /\ eventsResp.kind = "badjson"
    /\ aiResp.kind = "neterr"
    /\ pc = "generate_svg"

\* C8: every run of main eventually writes profile.svg exactly once and then
\* finishes, with or without a token and whatever the outcomes of the three
\* fetches are.
C8_WritesOnceAndFinishes ==
    /\ [](written <= 1)
    /\ <>[](pc = "done" /\ written = 1)

\* A run with a token whose fetches have failed or come back empty has
\* written the file and finished.
C8_Witness ==
    /\ pc = "done"
    /\ written = 1
    /\ token
    /\ statsResp.kind = "badjson"
    /\ eventsResp.kind = "ok"
    /\ aiResp.kind = "neterr"

\* C9: requests are issued only with a token, one at a time in the order
\* stats, events, AI ratio, each finished before the next begins, and the
\* file is written only after all three have finished; without a token no
\* request is issued.
ExpectedLog ==
    IF token
    THEN <<"stats:request", "stats:done", "events:request", "events:done",
           "ai:request", "ai:done", "write">>
    ELSE <<"write">>

C9_SequentialRequests ==
    /\ IsPrefix(log, ExpectedLog)
    /\ (pc = "done" => log = ExpectedLog)

\* A run with a token has issued its three requests and written the file.
C9_Witness ==
    /\ token
    /\ pc = "done"
    /\ Len(log) > 1

---------------------------------------------------------------------------
(* The claim about fetch_events, under SpecEvents *)

\* the text of msg up to its first line break
FirstLineOf(m) ==
    LET brk == {i \in 1..Len(m) : m[i] = "\n"}
    IN IF brk = {} THEN m ELSE SubSeq(m, 1, (CHOOSE i \in brk : \A j \in brk : i <= j) - 1)

\* C10: fetch_events returns at most 5 entries: the first 5 commits of the
\* PushEvents in feed order, nothing from events of another type; each short
\* hash is the first 7 characters of the commit's hash or all of a shorter
\* one, each message the first 44 characters of the first line of the
\* commit's message or all of a shorter first line.
C10_FirstFivePushCommits ==
    (EventsReturned /\ eventsResp.kind = "ok") =>
        \A P \in {PushCommits} :
            /\ Len(events) <= MaxResult
            /\ Len(events) = Len(P) \/ (Len(events) = MaxResult /\ Len(P) > MaxResult)
            /\ \A i \in 1..Len(events) :
                  LET sha == Field(P[i], "sha", <<>>)
                      line == FirstLineOf(Field(P[i], "message", <<>>))
                  IN /\ Len(events[i].sha) <= ShaLen
                     /\ IsPrefix(events[i].sha, sha)
                     /\ (Len(events[i].sha) = ShaLen \/ events[i].sha = sha)
                     /\ Len(events[i].msg) <= MsgLen
                     /\ IsPrefix(events[i].msg, line)
                     /\ (Len(events[i].msg) = MsgLen \/ events[i].msg = line)

\* A feed that starts with an event of another type that has commits, and
\* whose PushEvents have more than 5 commits with hashes and first lines
\* longer than 7 and 44 characters.
C10_Witness ==
    /\ EventsReturned
    /\ eventsResp.kind = "ok"
    /\ Len(RespFeed) > 1
    /\ RespFeed[1].type # "PushEvent"
    /\ Len(RespFeed[1].payload.commits) > 0
    /\ Len(PushCommits) > MaxResult
    /\ Len(events) = MaxResult
    /\ \A i \in 1..Len(events) :
          /\ Len(events[i].sha) = ShaLen
          /\ Len(events[i].msg) = MsgLen
          /\ Len(PushCommits[i].sha) > ShaLen
          /\ Len(PushCommits[i].message) > MsgLen

---------------------------------------------------------------------------
(* The claims about fetch_ai_ratio, under SpecAi *)

AiOk == AiReturned /\ aiResp.kind = "ok"

\* the messages of the commits inside the PushEvents of the feed, in feed order
AiPushMessages ==
    Concat([e \in 1..Len(aiResp.body) |->
              IF Field(aiResp.body[e], "type", Unset) = "PushEvent"
              THEN [c \in 1..Len(aiResp.body[e].payload.commits) |->
                       Field(aiResp.body[e].payload.commits[c], "message", <<>>)]
              ELSE <<>>])

MatchesSome(msg) == \E p \in 1..NumPatterns : re_search(p, msg)

RECURSIVE SumValues(_, _)
SumValues(d, keys) ==
    IF keys = {} THEN 0
    ELSE LET k == CHOOSE k \in keys : TRUE
         IN d[k] + SumValues(d, keys \ {k})

\* C11: after fetch_ai_ratio has processed a feed, total is the number of
\* commits inside PushEvents, 0 <= ai_count <= total, every breakdown value is
\* at least 1, the breakdown values sum to ai_count, and ai_count is the number
\* of commits that match at least one pattern: a commit that matches several
\* patterns counts once.
C11_AiTallies ==
    AiOk =>
        \A M \in {AiPushMessages} :
            /\ ai.total = Len(M)
            /\ 0 <= ai.ai_count
            /\ ai.ai_count <= ai.total
            /\ \A k \in DOMAIN ai.ai_breakdown : ai.ai_breakdown[k] >= 1
            /\ SumValues(ai.ai_breakdown, DOMAIN ai.ai_breakdown) = ai.ai_count
            /\ ai.ai_count = Cardinality({i \in 1..Len(M) : MatchesSome(M[i])})

\* A feed with a WatchEvent that has commits, and PushEvents with a commit
\* that matches two patterns and one that matches none.
C11_Witness ==
    /\ AiOk
    /\ \E e \in 1..Len(aiResp.body) :
          /\ aiResp.body[e].type = "WatchEvent"
          /\ Len(aiResp.body[e].payload.commits) > 0
    /\ \E i \in 1..Len(AiPushMessages) :
          Cardinality({p \in 1..NumPatterns : re_search(p, AiPushMessages[i])}) > 1
    /\ \E i \in 1..Len(AiPushMessages) : ~MatchesSome(AiPushMessages[i])
    /\ ai.ai_count >= 1
    /\ ai.ai_count < ai.total

\* the name the claim gives a matching commit: that of the first keyword, in
\* the order of AI_NAMES, found anywhere in the lower-cased message, else NAVI
KeywordHits(msg) ==
    {n \in 1..Len(AI_NAMES) : Contains(Lower(msg), AI_NAMES[n].keyword)}
ExpectedName(msg) ==
    LET hits == KeywordHits(msg)
    IN IF hits = {} THEN "NAVI"
       ELSE AI_NAMES[CHOOSE n \in hits : \A m \in hits : n <= m].name
\* for each commit inside a PushEvent, the name it counts for, "" if it matches
\* no pattern
ExpectedNames ==
    [i \in 1..Len(AiPushMessages) |->
        IF MatchesSome(AiPushMessages[i]) THEN ExpectedName(AiPushMessages[i]) ELSE ""]
CompanionNames == {AI_NAMES[n].name : n \in 1..Len(AI_NAMES)}

\* C16: each commit whose message matches a pattern adds one to exactly one
\* breakdown entry, the name of the first keyword in the order claude, copilot,
\* gpt, gemini, cursor, codeium, tabnine that occurs in the lower-cased
\* message, or NAVI when none occurs; so the keys of the breakdown are among
\* the seven companion names.
C16_OneNamePerAiCommit ==
    AiOk =>
        \A E \in {ExpectedNames} :
            /\ DOMAIN ai.ai_breakdown \subseteq CompanionNames
            /\ \A name \in CompanionNames :
                  \A cnt \in {Cardinality({i \in 1..Len(E) : E[i] = name})} :
                      IF cnt = 0 THEN name \notin DOMAIN ai.ai_breakdown
                      ELSE name \in DOMAIN ai.ai_breakdown /\ ai.ai_breakdown[name] = cnt

\* A feed whose commits include one with two keywords, the later of AI_NAMES
\* first in the text, one that matches with no keyword at all and one with
\* another keyword.
C16_Witness ==
    /\ AiOk
    /\ \E i \in 1..Len(AiPushMessages) :
          /\ MatchesSome(AiPushMessages[i])
          /\ Cardinality(KeywordHits(AiPushMessages[i])) > 1
    /\ \E i \in 1..Len(AiPushMessages) :
          /\ MatchesSome(AiPushMessages[i])
          /\ KeywordHits(AiPushMessages[i]) = {}
    /\ Cardinality(DOMAIN ai.ai_breakdown) > 1
    /\ ai.ai_breakdown["NAVI"] > 1

---------------------------------------------------------------------------
(* The claim about the streak as the code computes it, under SpecStreak *)

\* the length of the run of days with count > 0 that ends at the most recent
\* such day, 0 when there is none
RecentRun(days) ==
    IF Positive(days) = {} THEN 0
    ELSE LET last == MaxOf(Positive(days))
             before == {i \in Zero(days) : i < last}
         IN IF before = {} THEN last ELSE last - MaxOf(before)

\* C15: the streak scan skips the zero-count days at the recent end of the
\* calendar and returns the length of the most recent maximal run of days with
\* count > 0, whole when it spans weeks and ended for both loops by the first
\* zero-count day before it; the streak is 0 exactly when no day has count > 0.
C15_MostRecentRun ==
    StatsOk =>
        /\ stats.streak = RecentRun(RespDays)
        /\ (stats.streak = 0 <=> Positive(RespDays) = {})

\* A calendar that ends with a zero-count day and whose most recent run spans
\* two weeks and has a zero-count day before it.
C15_Witness ==
    /\ StatsOk
    /\ Len(RespDays) \in Zero(RespDays)
    /\ stats.streak > 1
    /\ \E w \in 2..Len(RespWeeks) :
          \E cur \in {Field(RespWeeks[w], "contributionDays", <<>>)} :
          \E prev \in {Field(RespWeeks[w - 1], "contributionDays", <<>>)} :
              /\ Len(cur) > 1
              /\ cur[1].contributionCount > 0
              /\ cur[Len(cur)].contributionCount = 0
              /\ Len(prev) > 1
              /\ prev[Len(prev)].contributionCount > 0
              /\ prev[Len(prev) - 1].contributionCount = 0

---------------------------------------------------------------------------
(* The claims about the panels, under SpecRender *)

\* generate_svg has returned
Rendered == pc \in {"write", "done"}

\* the number of hearts svg_hud fills for a streak
HeartsFor(streak) == svg_hud([stats EXCEPT !.streak = streak]).num_hearts

\* C12: svg_hud draws exactly 10 hearts, the first num_hearts of them filled;
\* num_hearts is between 1 and 10, does not decrease when the streak grows,
\* and is one more for each further 7 days of streak until it is 10.
C12_Hearts ==
    Rendered =>
        \A n \in {Cardinality({h \in 1..Len(svg.hud.hearts) : svg.hud.hearts[h]})} :
            /\ Len(svg.hud.hearts) = 10
            /\ \A h \in 1..Len(svg.hud.hearts) : svg.hud.hearts[h] <=> h <= n
            /\ n = svg.hud.num_hearts
            /\ n >= 1
            /\ n <= 10
            /\ \A t \in 0..stats.streak : HeartsFor(t) <= n
            /\ stats.streak >= 7 => n = Min(10, HeartsFor(stats.streak - 7) + 1)

\* A streak computed from a calendar that is long enough for more than 10
\* hearts without the cap.
C12_Witness ==
    /\ Rendered
    /\ token
    /\ stats.streak >= 70
    /\ svg.hud.num_hearts = 10
    /\ \A h \in 1..10 : svg.hud.hearts[h]

\* the counts of the days of a week
CountsOf(w) ==
    LET days == Field(w, "contributionDays", <<>>)
    IN [d \in 1..Len(days) |-> Field(days[d], "contributionCount", 0)]

\* the level the claim gives a count
LevelOk(cnt, lvl) ==
    /\ lvl \in 0..4
    /\ lvl = 0 <=> cnt = 0
    /\ lvl = 1 <=> cnt \in 1..2
    /\ lvl = 2 <=> cnt \in 3..5
    /\ lvl = 3 <=> cnt \in 6..9
    /\ lvl = 4 <=> cnt >= 10

\* C14: svg_dungeon_map draws at most 26 columns, the 26 most recent weeks in
\* their order when there are 26 or more and all the weeks otherwise; a day
\* with count 0 has level 0, 1-2 level 1, 3-5 level 2, 6-9 level 3, 10 or
\* more level 4, so the level is in 0..4 and does not decrease with the count.
C14_DungeonMap ==
    Rendered =>
        \A first \in {IF Len(stats.weeks) >= 26 THEN Len(stats.weeks) - 26 ELSE 0} :
            /\ Len(svg.map) <= 26
            /\ Len(svg.map) = Len(stats.weeks) - first
            /\ \A k \in 1..Len(svg.map) :
                  \A cnts \in {CountsOf(stats.weeks[first + k])} :
                      /\ Len(svg.map[k]) = Len(cnts)
                      /\ \A d \in 1..Len(cnts) : LevelOk(cnts[d], svg.map[k][d])
            /\ \A k1, k2 \in 1..Len(svg.map) :
                  \A d1 \in 1..Len(svg.map[k1]) : \A d2 \in 1..Len(svg.map[k2]) :
                      CountsOf(stats.weeks[first + k1])[d1] <= CountsOf(stats.weeks[first + k2])[d2]
                      => svg.map[k1][d1] <= svg.map[k2][d2]

\* More than 26 weeks are supplied, the oldest differs from the oldest one
\* drawn, and the map has cells of all five levels.
C14_Witness ==
    /\ Rendered
    /\ Len(stats.weeks) > 26
    /\ Len(svg.map) = 26
    /\ CountsOf(stats.weeks[1]) # CountsOf(stats.weeks[Len(stats.weeks) - 25])
    /\ \A lvl \in 0..4 : \E k \in 1..Len(svg.map) : \E d \in 1..Len(svg.map[k]) :
          svg.map[k][d] = lvl

---------------------------------------------------------------------------
(* The claim about the item grid, under SpecInventory *)

\* C13: svg_inventory renders exactly 8 slots for a language list of any
\* length: slot i (from 0) is filled and shows language i when i < len(langs),
\* and is an empty placeholder otherwise; filled + empty = 8 and no language
\* after the 8th is shown.
C13_EightSlots ==
    Rendered =>
        /\ Len(svg.inventory) = 8
        /\ \A i \in 1..Len(svg.inventory) :
              IF i - 1 < Len(stats.langs)
              THEN /\ svg.inventory[i].filled
                   /\ svg.inventory[i].name = stats.langs[i].name
                   /\ svg.inventory[i].pct = stats.langs[i].pct
              ELSE ~svg.inventory[i].filled
        /\ Cardinality({i \in 1..Len(svg.inventory) : svg.inventory[i].filled})
           + Cardinality({i \in 1..Len(svg.inventory) : ~svg.inventory[i].filled}) = 8
        /\ \A j \in 9..Len(stats.langs) :
              \A i \in 1..Len(svg.inventory) :
                  svg.inventory[i].filled => svg.inventory[i].name # stats.langs[j].name

\* A list of more than 8 languages has been rendered.
C13_Witness ==
    /\ Rendered
    /\ Len(stats.langs) > 8
    /\ \A i \in 1..8 : svg.inventory[i].filled

\* A list of fewer than 8 languages has been rendered with its placeholders.
C13_WitnessShort ==
    /\ Rendered
    /\ Len(stats.langs) \in 1..7
    /\ svg.inventory[1].filled
    /\ ~svg.inventory[8].filled

===========================================================================
